---- MODULE Spec2Model ----
(***************************************************************************)
(* A model of the SEO analyzer's crawl (src/src/index.js): the URL         *)
(* resolver (cleanURL), the frontier (pagesVisited, queueURLToCrawl), the  *)
(* fetch-completion handler (analyzePage), the completion pass             *)
(* (adjustTermScores) and the scoring engine (scorePage).                  *)
(*                                                                         *)
(* JavaScript strings are TLA+ strings; a JavaScript object is a record    *)
(* whose domain is the set of properties the object has, so a property     *)
(* that was never assigned (or was deleted) is absent from the domain.     *)
(* pagesVisited is a sequence of <<URL, pageDetails>> pairs in insertion   *)
(* order, which is the order a JavaScript for-in loop visits the keys.     *)
(***************************************************************************)
EXTENDS Integers, Sequences, FiniteSets, TLC

VARIABLES
    configuration,  \* the configuration object startCrawler received
    pagesVisited,   \* the frontier: <<URL, pageDetails>> pairs, insertion order
    queue,          \* the crawler's unfinished tasks, oldest first (head in flight)
    now,            \* the clock Date.now() reads, in seconds
    phase,          \* "crawling", "complete" (completion branch ran) or "crashed"
    completions,    \* how many times the completion branch was entered
    reported,       \* the report hooks that ran: subset of {"csv", "report"}
    queuedLog,      \* history: every crawler.queue(URL) call, as [URL, analyze]
    lastCalls,      \* history: queueURLToCrawl calls of the last handler
    lastResponse,   \* history: what the last analyzePage call received
    answered,       \* history: the URLs whose fetch completed, with the outcome
    site            \* the anchors the pages of the crawled site may carry

vars == <<configuration, pagesVisited, queue, now, phase, completions,
          reported, queuedLog, lastCalls, lastResponse, answered, site>>

-----------------------------------------------------------------------------
(* Bounds of the model.                                                    *)

\* the most anchors a fetched page carries
MaxLinks == 2
\* the most records the frontier may hold before pages stop carrying new links
MaxPages == 3

-----------------------------------------------------------------------------
(* JavaScript values and string functions.                                 *)

Undefined == "<undefined>"
Null == "<null>"

Min(a, b) == IF a <= b THEN a ELSE b

CharAt(s, i) == SubSeq(s, i, i)

\* String.prototype.substr(start, length), 0-based start
Substr(s, start, length) == SubSeq(s, start + 1, Min(Len(s), start + length))

\* String.prototype.startsWith
StartsWith(s, prefix) ==
    Len(prefix) <= Len(s) /\ SubSeq(s, 1, Len(prefix)) = prefix

EndsWith(s, suffix) ==
    Len(suffix) <= Len(s) /\ SubSeq(s, Len(s) - Len(suffix) + 1, Len(s)) = suffix

\* 1-based position of the first character of s that is in chars, 0 if none
RECURSIVE FirstOf(_, _, _)
FirstOf(s, chars, i) ==
    IF i > Len(s) THEN 0
    ELSE IF CharAt(s, i) \in chars THEN i
    ELSE FirstOf(s, chars, i + 1)

UpperCaseLetters == "ABCDEFGHIJKLMNOPQRSTUVWXYZ"
LowerCaseLetters == "abcdefghijklmnopqrstuvwxyz"

LowerTable ==
    [c \in {CharAt(UpperCaseLetters, i) : i \in 1..26} |->
        CharAt(LowerCaseLetters, FirstOf(UpperCaseLetters, {c}, 1))]

LowerChar(c) == IF c \in DOMAIN LowerTable THEN LowerTable[c] ELSE c

\* String.prototype.toLowerCase
RECURSIVE ToLowerCase(_)
ToLowerCase(s) ==
    IF Len(s) = 0 THEN "" ELSE LowerChar(CharAt(s, 1)) \o ToLowerCase(Tail(s))

\* JavaScript truthiness of a string-or-undefined property value
Truthy(v) == v # Undefined /\ v # Null /\ Len(v) > 0

-----------------------------------------------------------------------------
(* url-parse and path, as index.js uses them.                              *)

SchemeChars ==
    {CharAt(LowerCaseLetters, i) : i \in 1..26} \cup
    {CharAt(UpperCaseLetters, i) : i \in 1..26} \cup
    {"0", "1", "2", "3", "4", "5", "6", "7", "8", "9", ".", "+", "-"}

\* length of the scheme prefix "xxx:" of an address, 0 if it has none
SchemeEnd(address, colon) ==
    IF colon > 1 /\ \A i \in 1..(colon - 1) : CharAt(address, i) \in SchemeChars
    THEN colon ELSE 0

ProtocolLength(address) == SchemeEnd(address, FirstOf(address, {":"}, 1))

\* the hostname and pathname of what follows "//", cut at the first "/"
ParseAuthority(protocol, noQuery, slash) ==
    [protocol |-> protocol,
     hostname |-> IF slash = 0 THEN ToLowerCase(noQuery)
                  ELSE ToLowerCase(SubSeq(noQuery, 1, slash - 1)),
     pathname |-> IF slash = 0
                  THEN (IF Len(noQuery) > 0 THEN "/" ELSE "")
                  ELSE SubSeq(noQuery, slash, Len(noQuery))]

\* rest: the address after the scheme and the "//", cut is where its query
\* or fragment starts
ParseLocation(protocol, slashes, rest, cut) ==
    IF slashes
    THEN ParseAuthority(protocol,
                        IF cut = 0 THEN rest ELSE SubSeq(rest, 1, cut - 1),
                        FirstOf(IF cut = 0 THEN rest ELSE SubSeq(rest, 1, cut - 1),
                                {"/"}, 1))
    ELSE [protocol |-> protocol, hostname |-> "",
          pathname |-> IF cut = 0 THEN rest ELSE SubSeq(rest, 1, cut - 1)]

ParseAfterScheme(protocol, slashes, rest) ==
    ParseLocation(protocol, slashes, rest, FirstOf(rest, {"#", "?"}, 1))

ParseAddress(address, plen) ==
    ParseAfterScheme(
        ToLowerCase(SubSeq(address, 1, plen)),
        StartsWith(SubSeq(address, plen + 1, Len(address)), "//"),
        IF StartsWith(SubSeq(address, plen + 1, Len(address)), "//")
        THEN SubSeq(address, plen + 3, Len(address))
        ELSE SubSeq(address, plen + 1, Len(address)))

\* URLParse(address): the protocol, hostname and pathname properties. An
\* address with no "//" after the optional scheme is all pathname (up to the
\* query or fragment); a URL with a hostname has a pathname that starts
\* with "/".
URLParse(address) ==
    ParseAddress(address, ProtocolLength(address))

\* the scan of Path.dirname: going down from the last character, the index
\* (0-based) of the first "/" met after a character that is not "/"; -1 if none
RECURSIVE DirnameEnd(_, _, _)
DirnameEnd(path, i, matchedSlash) ==
    IF i < 1 THEN -1
    ELSE IF CharAt(path, i + 1) = "/"
         THEN IF ~matchedSlash THEN i ELSE DirnameEnd(path, i - 1, matchedSlash)
         ELSE DirnameEnd(path, i - 1, FALSE)

\* Path.dirname (POSIX)
DirnameUpTo(path, hasRoot, end) ==
    IF end = -1 THEN (IF hasRoot THEN "/" ELSE ".")
    ELSE IF hasRoot /\ end = 1 THEN "//"
    ELSE SubSeq(path, 1, end)

Dirname(path) ==
    IF Len(path) = 0 THEN "."
    ELSE DirnameUpTo(path, CharAt(path, 1) = "/", DirnameEnd(path, Len(path) - 1, TRUE))

IndexFileNames == {"index.html", "index.php", "index.jsp"}

IsRootPath(pathname) == Len(pathname) = 0 \/ pathname = "/"

\* the test of isIndexPage on the pathname
IsIndexPath(pathname) ==
    \/ Len(pathname) = 0
    \/ pathname = "/"
    \/ pathname \in IndexFileNames
    \/ pathname \in {"/" \o f : f \in IndexFileNames}

\* isIndexPage without the index file names
isIndexPageRootOnly(URL) == IsRootPath(URLParse(URL).pathname)

\* isIndexPage: the pathname is empty, "/", or matches /^\/?index\.(html|php|jsp)$/
isIndexPage(URL) == IsIndexPath(URLParse(URL).pathname)

-----------------------------------------------------------------------------
(* The frontier: pagesVisited, a JavaScript object keyed by URL.           *)

RECURSIVE PageIndex(_, _, _)
\* position of URL's entry in the object, 0 if it has no such property
PageIndex(pages, URL, i) ==
    IF i > Len(pages) THEN 0
    ELSE IF pages[i][1] = URL THEN i
    ELSE PageIndex(pages, URL, i + 1)

\* pagesVisited[URL] != undefined
HasPage(pages, URL) == PageIndex(pages, URL, 1) # 0

\* pagesVisited[URL]
GetPage(pages, URL) == pages[PageIndex(pages, URL, 1)][2]

\* pagesVisited[URL] = pageDetails: in place for a key the object has, else appended
PutPage(pages, URL, pageDetails) ==
    LET i == PageIndex(pages, URL, 1)
    IN  IF i = 0 THEN Append(pages, <<URL, pageDetails>>)
        ELSE [pages EXCEPT ![i] = <<URL, pageDetails>>]

\* delete pagesVisited[URL]
DeletePage(pages, URL) ==
    LET i == PageIndex(pages, URL, 1)
    IN  IF i = 0 THEN pages
        ELSE SubSeq(pages, 1, i - 1) \o SubSeq(pages, i + 1, Len(pages))

\* Object.keys(pagesVisited)
PageKeys(pages) == [i \in 1..Len(pages) |-> pages[i][1]]

KeySet(pages) == {pages[i][1] : i \in 1..Len(pages)}

\* pageDetails.<property> = value
SetProperty(pageDetails, property, value) == (property :> value) @@ pageDetails

\* delete pageDetails.<property>
DeleteProperty(pageDetails, property) ==
    [p \in (DOMAIN pageDetails) \ {property} |-> pageDetails[p]]

HasProperty(pageDetails, property) == property \in DOMAIN pageDetails

-----------------------------------------------------------------------------
(* startURL, makeURL, isIntendedSubPath, queueURLToCrawl, cleanURL.        *)
(* The mutable state a handler works on is threaded through as a record    *)
(* crawl = [pagesVisited, queue, queuedLog, lastCalls].                    *)

\* makeURL: `${configuration.protocol}//${configuration.host}${pathFromRoot}`
makeURL(pathFromRoot) ==
    configuration.protocol \o "//" \o configuration.host \o pathFromRoot

startURL == makeURL(configuration.startPage)

\* isIntendedSubPath without the test of the hostname
isIntendedSubPathAnyHost(URLParts) ==
    IF configuration.subPathOnly
    THEN StartsWith(URLParts.pathname, configuration.basePath)
    ELSE TRUE

isIntendedSubPath(URLParts) ==
    IF Len(URLParts.hostname) = 0 \/ ToLowerCase(URLParts.hostname) = configuration.host
    THEN IF configuration.subPathOnly
         THEN StartsWith(URLParts.pathname, configuration.basePath)
         ELSE TRUE
    ELSE FALSE

\* the record queueURLToCrawl creates
NewPageDetails(referrer, analyze, time) ==
    [statusCode |-> -1, queueTime |-> time, referrer |-> referrer,
     analyze |-> analyze, pageScore |-> 0, title |-> "", description |-> "",
     keywords |-> "", headerOne |-> "", lastModified |-> "", product |-> "",
     version |-> ""]

\* a URL that begins with "//" gets the configured protocol (cleanURL and
\* queueURLToCrawl both do this)
QueueKey(URL) ==
    IF Substr(URL, 0, 2) = "//" THEN configuration.protocol \o URL ELSE URL

\* the new record and the crawler.queue(URL) of queueURLToCrawl, under key
QueueNew(crawl, key, referrer, analyze, time) ==
    [pagesVisited |-> PutPage(crawl.pagesVisited, key,
                              NewPageDetails(referrer, analyze, time)),
     queue        |-> Append(crawl.queue, key),
     queuedLog    |-> Append(crawl.queuedLog, [URL |-> key, analyze |-> analyze]),
     lastCalls    |-> Append(crawl.lastCalls,
                             [URL |-> key, referrer |-> referrer,
                              analyze |-> analyze, isQueued |-> TRUE])]

\* queueURLToCrawl finding a record under key: nothing but isQueued = false
QueueRefused(crawl, key, referrer, analyze) ==
    [crawl EXCEPT !.lastCalls =
        Append(@, [URL |-> key, referrer |-> referrer,
                   analyze |-> analyze, isQueued |-> FALSE])]

QueueUnderKey(crawl, key, referrer, analyze, time) ==
    IF ~HasPage(crawl.pagesVisited, key)
    THEN QueueNew(crawl, key, referrer, analyze, time)
    ELSE QueueRefused(crawl, key, referrer, analyze)

QueueUnlessAnswered(crawl, key, referrer, analyze, time) ==
    IF \/ ~HasPage(crawl.pagesVisited, key)
       \/ GetPage(crawl.pagesVisited, key).statusCode = -1
    THEN QueueNew(crawl, key, referrer, analyze, time)
    ELSE QueueRefused(crawl, key, referrer, analyze)

QueueRemode(crawl, key, referrer, analyze, time) ==
    IF ~HasPage(crawl.pagesVisited, key)
    THEN QueueNew(crawl, key, referrer, analyze, time)
    ELSE [QueueRefused(crawl, key, referrer, analyze) EXCEPT
             !.pagesVisited = PutPage(@, key,
                 SetProperty(GetPage(@, key), "analyze", analyze))]

\* queueURLToCrawl without the test pagesVisited[URL] == undefined
queueURLToCrawlAlways(crawl, URL, referrer, analyze, time) ==
    QueueNew(crawl, QueueKey(URL), referrer, analyze, time)

\* queueURLToCrawl that takes a record without a response for no record
queueURLToCrawlUnlessAnswered(crawl, URL, referrer, analyze, time) ==
    QueueUnlessAnswered(crawl, QueueKey(URL), referrer, analyze, time)

\* queueURLToCrawl that gives a record it finds the mode of the new call
queueURLToCrawlRemode(crawl, URL, referrer, analyze, time) ==
    QueueRemode(crawl, QueueKey(URL), referrer, analyze, time)

\* queueURLToCrawl(crawler, URL, referrer, analyze) at time `time`; the
\* returned isQueued is the isQueued of the last entry of lastCalls
queueURLToCrawl(crawl, URL, referrer, analyze, time) ==
    QueueUnderKey(crawl, QueueKey(URL), referrer, analyze, time)

\* realURL of cleanURL's in-scope branch: makeURL of the pathname, resolved
\* against the directory of currentURL when it does not start with "/"
MadeURL(URLParts, currentURL) ==
    IF ~StartsWith(URLParts.pathname, "/")
    THEN makeURL(Dirname(currentURL) \o "/" \o URLParts.pathname)
    ELSE makeURL(URLParts.pathname)

\* the in-scope branch once realURL is made
cleanMadeURL(crawl, proposedURL, URLParts, made, referrer, time) ==
    IF HasPage(crawl.pagesVisited, proposedURL)
    THEN [crawl |-> crawl, realURL |-> Null]
    ELSE IF /\ configuration.subPathOnly
            /\ ~StartsWith(URLParts.pathname, configuration.basePath)
            /\ ~HasPage(crawl.pagesVisited, made)
    THEN [crawl   |-> queueURLToCrawl(crawl, made, referrer, FALSE, time),
          realURL |-> Null]
    ELSE [crawl |-> crawl, realURL |-> made]

\* cleanURL, the branch for a URL isIntendedSubPath accepts
cleanURLInScope(crawl, proposedURL, URLParts, currentURL, referrer, time) ==
    cleanMadeURL(crawl, proposedURL, URLParts, MadeURL(URLParts, currentURL),
                 referrer, time)

\* the key cleanURL probes a URL under that isIntendedSubPath rejects
ProbeKey(proposedURL, URLParts) ==
    (IF Len(URLParts.protocol) = 0 THEN configuration.protocol
     ELSE URLParts.protocol)
    \o "//" \o
    (IF Len(URLParts.hostname) = 0 THEN configuration.host
     ELSE URLParts.hostname)
    \o (IF isIndexPage(proposedURL) THEN "/" ELSE URLParts.pathname)

\* probeUnderKey that queues the key in analyze mode
probeUnderKeyAnalyzed(crawl, key, referrer, time) ==
    IF ~HasPage(crawl.pagesVisited, key)
    THEN [crawl   |-> queueURLToCrawl(crawl, key, referrer, TRUE, time),
          realURL |-> Null]
    ELSE [crawl |-> crawl, realURL |-> Null]

\* the 404 check of a key, unless it has a record
probeUnderKey(crawl, key, referrer, time) ==
    IF ~HasPage(crawl.pagesVisited, key)
    THEN [crawl   |-> queueURLToCrawl(crawl, key, referrer, FALSE, time),
          realURL |-> Null]
    ELSE [crawl |-> crawl, realURL |-> Null]

\* cleanURL, the branch for a URL on another host or outside the target path
cleanURLOutOfScope(crawl, proposedURL, URLParts, referrer, time) ==
    probeUnderKey(crawl, ProbeKey(proposedURL, URLParts), referrer, time)

\* cleanURL once the URL has its protocol and is parsed
cleanParsedURL(crawl, proposedURL, URLParts, currentURL, referrer, time) ==
    IF isIntendedSubPath(URLParts)
    THEN cleanURLInScope(crawl, proposedURL, URLParts, currentURL, referrer, time)
    ELSE cleanURLOutOfScope(crawl, proposedURL, URLParts, referrer, time)

\* cleanURL without the test proposedURL[0] != "?"
cleanURLFragmentOnly(crawl, proposedURL, currentURL, referrer, time) ==
    IF /\ proposedURL # Undefined
       /\ proposedURL # Null
       /\ Len(proposedURL) > 0
       /\ CharAt(proposedURL, 1) # "#"
    THEN cleanParsedURL(crawl, QueueKey(proposedURL),
                        URLParse(QueueKey(proposedURL)), currentURL, referrer, time)
    ELSE [crawl |-> crawl, realURL |-> Null]

\* cleanURL(proposedURL, currentURL, referrer): the URL to analyze, or Null;
\* probes are queued on the way
cleanURL(crawl, proposedURL, currentURL, referrer, time) ==
    IF /\ proposedURL # Undefined
       /\ proposedURL # Null
       /\ Len(proposedURL) > 0
       /\ CharAt(proposedURL, 1) # "#"
       /\ CharAt(proposedURL, 1) # "?"
    THEN cleanParsedURL(crawl, QueueKey(proposedURL),
                        URLParse(QueueKey(proposedURL)), currentURL, referrer, time)
    ELSE [crawl |-> crawl, realURL |-> Null]

-----------------------------------------------------------------------------
(* The scoring engine: sortWordsByFrequency and scorePage.                 *)

specialWordFilter ==
    {":", "=", "==", "{", "}", "|", ";", "(", ")", "++", "//", "://", "**",
     "***", "()"}

\* String.prototype.split(separator) for a one-character separator
RECURSIVE Split(_, _)
Split(s, separator) ==
    IF FirstOf(s, {separator}, 1) = 0 THEN <<s>>
    ELSE <<SubSeq(s, 1, FirstOf(s, {separator}, 1) - 1)>>
         \o Split(SubSeq(s, FirstOf(s, {separator}, 1) + 1, Len(s)), separator)

\* String.prototype.replace(pattern, replacement) for a one-character string
\* pattern: the first occurrence only
ReplaceFirst(s, pattern, replacement) ==
    IF FirstOf(s, {pattern}, 1) = 0 THEN s
    ELSE SubSeq(s, 1, FirstOf(s, {pattern}, 1) - 1) \o replacement
         \o SubSeq(s, FirstOf(s, {pattern}, 1) + 1, Len(s))

WhiteSpace == {" ", "\t", "\n", "\r"}

\* String.prototype.trim
RECURSIVE Trim(_)
Trim(s) ==
    IF Len(s) = 0 THEN s
    ELSE IF CharAt(s, 1) \in WhiteSpace THEN Trim(Tail(s))
    ELSE IF CharAt(s, Len(s)) \in WhiteSpace THEN Trim(SubSeq(s, 1, Len(s) - 1))
    ELSE s

\* the decimal digits of a number >= 0, as string concatenation produces them
RECURSIVE NumberToString(_)
NumberToString(n) ==
    IF n < 10 THEN CharAt("0123456789", n + 1)
    ELSE NumberToString(n \div 10) \o CharAt("0123456789", (n % 10) + 1)

\* Array.prototype.indexOf(word) >= 0
Includes(list, word) == \E i \in 1..Len(list) : list[i] = word

\* one word put into a list already sorted by descending frequency, after
\* every entry that is not smaller (the sort is stable)
RECURSIVE InsertByFrequency(_, _)
InsertByFrequency(sorted, word) ==
    IF Len(sorted) = 0 THEN <<word>>
    ELSE IF Head(sorted).frequency >= word.frequency
         THEN <<Head(sorted)>> \o InsertByFrequency(Tail(sorted), word)
         ELSE <<word>> \o sorted

RECURSIVE SortDescending(_)
SortDescending(words) ==
    IF Len(words) = 0 THEN <<>>
    ELSE InsertByFrequency(SortDescending(SubSeq(words, 1, Len(words) - 1)),
                           words[Len(words)])

\* sortWordsByFrequency(wordList, frequencyList)
sortWordsByFrequency(wordList, frequencyList) ==
    SortDescending(SelectSeq([i \in 1..Len(wordList) |->
                                 [term |-> wordList[i], frequency |-> frequencyList[i]]],
                             LAMBDA w : w.term \notin specialWordFilter))

\* BoostWord that raises the frequency only of the entries it counts
BoostWordAboveOne(wordFrequencyList, match, boost) ==
    [list    |-> [i \in 1..Len(wordFrequencyList) |->
                     IF /\ wordFrequencyList[i].term = match
                        /\ wordFrequencyList[i].frequency > 1
                     THEN [wordFrequencyList[i] EXCEPT !.frequency = @ + boost]
                     ELSE wordFrequencyList[i]],
     boosted |-> Cardinality({i \in 1..Len(wordFrequencyList) :
                                 /\ wordFrequencyList[i].term = match
                                 /\ wordFrequencyList[i].frequency > 1})]

\* the inner loop of a boost pass for one word: every entry of the list whose
\* term equals `match` gains `boost`; the entries that had frequency > 1 count
BoostWord(wordFrequencyList, match, boost) ==
    [list    |-> [i \in 1..Len(wordFrequencyList) |->
                     IF wordFrequencyList[i].term = match
                     THEN [wordFrequencyList[i] EXCEPT !.frequency = @ + boost]
                     ELSE wordFrequencyList[i]],
     boosted |-> Cardinality({i \in 1..Len(wordFrequencyList) :
                                 /\ wordFrequencyList[i].term = match
                                 /\ wordFrequencyList[i].frequency > 1})]

\* acc after one word of a boost pass: one = what BoostWord made of acc.list
Boosted(acc, word, one, headerOneWords) ==
    [list        |-> one.list,
     boosted     |-> acc.boosted + one.boosted,
     headerWords |-> acc.headerWords
                     + (IF headerOneWords # <<Null>> /\ Includes(headerOneWords, word)
                        THEN 1 ELSE 0)]

\* a boost pass (title, description or keywords) over boostWords from word
\* number i on; acc = [list, boosted, headerWords]
RECURSIVE BoostPass(_, _, _, _, _, _)
BoostPass(acc, boostWords, i, boost, trimmed, headerOneWords) ==
    IF i > Len(boostWords) THEN acc
    ELSE BoostPass(
             Boosted(acc, ToLowerCase(boostWords[i]),
                     BoostWord(acc.list,
                               IF trimmed THEN Trim(ToLowerCase(boostWords[i]))
                               ELSE ToLowerCase(boostWords[i]),
                               boost),
                     headerOneWords),
             boostWords, i + 1, boost, trimmed, headerOneWords)

\* new Date(string).valueOf(), in seconds of the model's clock; NaN for a
\* string that is no date
DateParse(string) ==
    CASE string = "2026-10-31" -> [nan |-> FALSE, value |-> 57715200]
      [] string = "2025-11-01" -> [nan |-> FALSE, value |-> 26265600]
      [] string = "2025-10-31" -> [nan |-> FALSE, value |-> 26179200]
      [] OTHER                 -> [nan |-> TRUE]

\* 365 * 24 * 60 * 60 * 1000 milliseconds, in seconds
OneYear == 365 * 24 * 60 * 60

\* pageDetails.<property>, Undefined for a property the object lacks
Property(pageDetails, property) ==
    IF HasProperty(pageDetails, property) THEN pageDetails[property] ELSE Undefined

\* a boost pass as scorePage starts it: the counters at 0
NewPass(wordFrequencyList) ==
    [list |-> wordFrequencyList, boosted |-> 0, headerWords |-> 0]

\* the words of pageDetails.headerOne, null when it is empty
HeaderOneWords(headerOne) ==
    IF Truthy(headerOne) THEN Split(headerOne, " ") ELSE <<Null>>

\* boost title (and description) words by +2
TitlePass(title, wordFrequencyList, headerOneWords) ==
    IF Truthy(title)
    THEN BoostPass(NewPass(wordFrequencyList), Split(title, " "), 1, 2, FALSE,
                   headerOneWords)
    ELSE NewPass(wordFrequencyList)

\* boost keyword words by +1
KeywordPass(keywords, wordFrequencyList, headerOneWords) ==
    IF Truthy(keywords)
    THEN BoostPass(NewPass(wordFrequencyList),
                   Split(ReplaceFirst(keywords, ",", " "), " "), 1, 1, TRUE,
                   headerOneWords)
    ELSE NewPass(wordFrequencyList)

TitleText(title, boosted) ==
    IF Truthy(title)
    THEN IF boosted > 0
         THEN "good: " \o NumberToString(boosted) \o " title words appear in body."
         ELSE "bad: no title words appear in body."
    ELSE "; very bad: no title."

DescriptionText(description, boosted) ==
    IF Truthy(description)
    THEN IF boosted > 0
         THEN "; good: " \o NumberToString(boosted)
              \o " description words appear in body."
         ELSE "; bad: no description words appear in body."
    ELSE "; very bad: no description."

KeywordsText(keywords, boosted) ==
    IF Truthy(keywords)
    THEN IF boosted > 0
         THEN "; good: " \o NumberToString(boosted) \o " keywords appear in body."
         ELSE "; bad: no keywords appear in body."
    ELSE "; very bad: no keywords."

\* TooOld with one day for one year
TooOldAfterOneDay(parsed, time) ==
    ~parsed.nan /\ time - parsed.value > OneYear \div 365

\* TooOld with >= for >
TooOldFromOneYear(parsed, time) == ~parsed.nan /\ time - parsed.value >= OneYear

\* age > one year, for a last-modified that parses to a date
TooOld(parsed, time) == ~parsed.nan /\ time - parsed.value > OneYear

AgeScore(lastModified, time) ==
    IF Truthy(lastModified)
    THEN (IF TooOld(DateParse(lastModified), time) THEN -1 ELSE 1)
    ELSE -2

AgeText(lastModified, time) ==
    IF Truthy(lastModified)
    THEN IF TooOld(DateParse(lastModified), time)
         THEN "; bad: page over 1 year old."
         ELSE "; good: page is recent."
    ELSE "; bad: page missing last-modified."

ProductScore(product, version) ==
    IF Truthy(product) THEN (IF ~Truthy(version) THEN -1 ELSE 1) ELSE 0

ProductText(product, version) ==
    IF Truthy(product)
    THEN IF ~Truthy(version)
         THEN "; bad: page has product but missing version."
         ELSE "; good: page has product and version."
    ELSE ""

\* HeaderScore that counts the H1 words of the title only
HeaderScoreTitleOnly(headerOne, inTitle, inDescription, inKeywords) ==
    IF Truthy(headerOne) THEN 1 + inTitle ELSE -1

HeaderScore(headerOne, inTitle, inDescription, inKeywords) ==
    IF Truthy(headerOne) THEN 1 + inTitle + inDescription + inKeywords ELSE -1

HeaderText(headerOne, inTitle, inDescription, inKeywords) ==
    IF Truthy(headerOne)
    THEN "; good: page has H1, " \o NumberToString(inTitle) \o " in title, "
         \o NumberToString(inDescription) \o " in description, "
         \o NumberToString(inKeywords) \o " in keywords"
    ELSE "; bad: page missing H1."

\* the end of scorePage: the score and the analysis from the three passes
scoreFromPasses(pageDetails, time, afterTitle, afterDesc, afterKey) ==
    DeleteProperty(
        [pageScore |->
            2 * afterTitle.boosted + 2 * afterDesc.boosted + afterKey.boosted
            + AgeScore(Property(pageDetails, "lastModified"), time)
            + ProductScore(Property(pageDetails, "product"),
                           Property(pageDetails, "version"))
            + HeaderScore(Property(pageDetails, "headerOne"), afterTitle.headerWords,
                          afterDesc.headerWords, afterKey.headerWords),
         pageAnalysis |->
            TitleText(Property(pageDetails, "title"), afterTitle.boosted)
            \o DescriptionText(Property(pageDetails, "description"), afterDesc.boosted)
            \o KeywordsText(Property(pageDetails, "keywords"), afterKey.boosted)
            \o AgeText(Property(pageDetails, "lastModified"), time)
            \o ProductText(Property(pageDetails, "product"),
                           Property(pageDetails, "version"))
            \o HeaderText(Property(pageDetails, "headerOne"), afterTitle.headerWords,
                          afterDesc.headerWords, afterKey.headerWords),
         wordFrequencyList |-> afterKey.list] @@ pageDetails,
        "terms")

scoreFromDescription(pageDetails, time, headerOneWords, afterTitle, afterDesc) ==
    scoreFromPasses(pageDetails, time, afterTitle, afterDesc,
                    KeywordPass(Property(pageDetails, "keywords"), afterDesc.list,
                                headerOneWords))

\* scoreFromTitle with the description pass over a fresh copy of the
\* frequency list instead of the list the title pass boosted
scoreFromTitleFreshList(pageDetails, time, headerOneWords, afterTitle) ==
    scoreFromDescription(pageDetails, time, headerOneWords, afterTitle,
                         TitlePass(Property(pageDetails, "description"),
                                   sortWordsByFrequency(pageDetails.terms.vocabulary,
                                                        pageDetails.terms.data[1]),
                                   headerOneWords))

scoreFromTitle(pageDetails, time, headerOneWords, afterTitle) ==
    scoreFromDescription(pageDetails, time, headerOneWords, afterTitle,
                         TitlePass(Property(pageDetails, "description"),
                                   afterTitle.list, headerOneWords))

scoreFromWords(pageDetails, time, headerOneWords, wordFrequencyList) ==
    scoreFromTitle(pageDetails, time, headerOneWords,
                   TitlePass(Property(pageDetails, "title"), wordFrequencyList,
                             headerOneWords))

\* the body of scorePage for a record with analyze set and a term matrix
scoreAnalyzedPage(pageDetails, time) ==
    scoreFromWords(pageDetails, time,
                   HeaderOneWords(Property(pageDetails, "headerOne")),
                   sortWordsByFrequency(pageDetails.terms.vocabulary,
                                        pageDetails.terms.data[1]))

\* scorePage(pageDetails) at time `time`: the record afterwards, or threw
\* when the read of pageDetails.terms.vocabulary finds no terms
scorePage(pageDetails, time) ==
    IF HasProperty(pageDetails, "analyze") /\ pageDetails.analyze
    THEN IF ~HasProperty(pageDetails, "terms")
         THEN [threw |-> TRUE, pageDetails |-> pageDetails]
         ELSE [threw |-> FALSE, pageDetails |-> scoreAnalyzedPage(pageDetails, time)]
    ELSE [threw |-> FALSE, pageDetails |-> pageDetails]

-----------------------------------------------------------------------------
(* adjustTermScores and analyzePage.                                       *)

\* adjustTermScores over the keys the for-in loop visits, from key number i:
\* a record without a response is deleted, an analyzed record whose
\* pageScore is 0 is handed to scorePage again
RECURSIVE adjustTermScoresFrom(_, _, _, _)

\* the loop after scorePage ran again on the record under keys[i]
adjustTermScoresAfter(pages, keys, i, time, scored) ==
    IF scored.threw
    THEN [threw |-> TRUE, pagesVisited |-> pages]
    ELSE adjustTermScoresFrom(PutPage(pages, keys[i], scored.pageDetails),
                              keys, i + 1, time)

\* adjustTermScoresAt without the delete of a record that has no status
adjustTermScoresAtKeeps(pages, keys, i, time, pageDetails) ==
    IF /\ pageDetails.statusCode # -1
       /\ HasProperty(pageDetails, "analyze") /\ pageDetails.analyze
       /\ HasProperty(pageDetails, "pageScore")
       /\ pageDetails.pageScore = 0
    THEN adjustTermScoresAfter(pages, keys, i, time, scorePage(pageDetails, time))
    ELSE adjustTermScoresFrom(pages, keys, i + 1, time)

\* the body of the loop for the record pageDetails under keys[i]
adjustTermScoresAt(pages, keys, i, time, pageDetails) ==
    IF pageDetails.statusCode = -1
    THEN adjustTermScoresFrom(DeletePage(pages, keys[i]), keys, i + 1, time)
    ELSE IF /\ HasProperty(pageDetails, "analyze") /\ pageDetails.analyze
            /\ HasProperty(pageDetails, "pageScore")
            /\ pageDetails.pageScore = 0
    THEN adjustTermScoresAfter(pages, keys, i, time, scorePage(pageDetails, time))
    ELSE adjustTermScoresFrom(pages, keys, i + 1, time)

adjustTermScoresFrom(pages, keys, i, time) ==
    IF i > Len(keys) THEN [threw |-> FALSE, pagesVisited |-> pages]
    ELSE adjustTermScoresAt(pages, keys, i, time, GetPage(pages, keys[i]))

adjustTermScores(pages, time) ==
    adjustTermScoresFrom(pages, PageKeys(pages), 1, time)

\* if (href != null) queueURLToCrawl(pageCrawler, href, proposedURL, true)
queueCleaned(cleaned, referrer, time) ==
    IF cleaned.realURL # Null
    THEN queueURLToCrawl(cleaned.crawl, cleaned.realURL, referrer, TRUE, time)
    ELSE cleaned.crawl

\* $('body').find('a').each(...): cleanURL on every anchor's href, and
\* queueURLToCrawl in analyze mode on every URL it returns
RECURSIVE followAnchors(_, _, _, _, _, _)
followAnchors(crawl, anchors, i, currentURL, referrer, time) ==
    IF i > Len(anchors) THEN crawl
    ELSE followAnchors(
             queueCleaned(cleanURL(crawl, Property(anchors[i], "href"),
                                   currentURL, referrer, time),
                          referrer, time),
             anchors, i + 1, currentURL, referrer, time)

\* withMetadata that also gives a page with a product a version
withMetadataVersioned(pageDetails, document) ==
    [title        |-> document.title,
     description  |-> document.description,
     keywords     |-> document.keywords,
     lastModified |-> document.lastModified,
     product      |-> document.product,
     version      |-> IF Truthy(document.product) THEN "1.0" ELSE Undefined,
     headerOne    |-> ToLowerCase(document.headerOne)] @@ pageDetails

\* the metadata analyzePage reads from the document
withMetadata(pageDetails, document) ==
    [title        |-> document.title,
     description  |-> document.description,
     keywords     |-> document.keywords,
     lastModified |-> document.lastModified,
     product      |-> document.product,
     headerOne    |-> ToLowerCase(document.headerOne)] @@ pageDetails

\* shouldAnalyze with <= 300 for < 300
shouldAnalyzeThrough300(pageDetails, response) ==
    /\ response.statusCode <= 300
    /\ HasProperty(pageDetails, "analyze") /\ pageDetails.analyze
    /\ response.html

\* shouldAnalyze without the test of pageDetails.analyze
shouldAnalyzeAnyMode(pageDetails, response) ==
    /\ response.statusCode < 300
    /\ response.html

\* analyzePage's test for reading the page: response.statusCode < 300 &&
\* pageDetails.analyze, and then response.$
shouldAnalyze(pageDetails, response) ==
    /\ response.statusCode < 300
    /\ HasProperty(pageDetails, "analyze") /\ pageDetails.analyze
    /\ response.html

\* the branch that reads the page: metadata, the anchors, the term matrix,
\* scorePage; then completeTime and the store under the response's URL
analyzeDocument(crawl, response, time, read) ==
    [followAnchors([crawl EXCEPT !.pagesVisited = PutPage(@, response.href, read)],
                   response.document.anchors, 1,
                   URLParse(response.href).pathname, response.href, time)
        EXCEPT !.pagesVisited =
            PutPage(@, response.href,
                    SetProperty(scorePage(SetProperty(read, "terms",
                                                      response.document.terms),
                                          time).pageDetails,
                                "completeTime", time))]

\* analyzeWithStatus without pageDetails.analyze = false in the branches
\* that do not read the page
analyzeWithStatusKeepsMode(crawl, response, time, pageDetails) ==
    IF shouldAnalyze(pageDetails, response)
    THEN analyzeDocument(crawl, response, time,
                         withMetadata(pageDetails, response.document))
    ELSE [crawl EXCEPT !.pagesVisited =
             PutPage(@, response.href,
                     SetProperty(pageDetails, "completeTime", time))]

\* analyzePage for a response whose URL has no record or no status yet;
\* pageDetails already has the status code
analyzeWithStatus(crawl, response, time, pageDetails) ==
    IF shouldAnalyze(pageDetails, response)
    THEN analyzeDocument(crawl, response, time,
                         withMetadata(pageDetails, response.document))
    ELSE [crawl EXCEPT !.pagesVisited =
             PutPage(@, response.href,
                     SetProperty(SetProperty(pageDetails, "analyze", FALSE),
                                 "completeTime", time))]

\* analyzeResponse that also discards the response of a URL without a record
analyzeResponseKnownOnly(crawl, response, time) ==
    IF /\ HasPage(crawl.pagesVisited, response.href)
       /\ GetPage(crawl.pagesVisited, response.href).statusCode < 0
    THEN analyzeWithStatus(
             crawl, response, time,
             SetProperty(GetPage(crawl.pagesVisited, response.href),
                         "statusCode", response.statusCode))
    ELSE crawl

\* analyzeResponse without the test that discards the response of a URL
\* whose record has a status
analyzeResponseAlways(crawl, response, time) ==
    analyzeWithStatus(
        crawl, response, time,
        SetProperty(IF HasPage(crawl.pagesVisited, response.href)
                    THEN GetPage(crawl.pagesVisited, response.href)
                    ELSE << >>,
                    "statusCode", response.statusCode))

\* the part of analyzePage that handles a response (no error), up to the
\* assignment pagesVisited[proposedURL] = pageDetails
analyzeResponse(crawl, response, time) ==
    IF \/ ~HasPage(crawl.pagesVisited, response.href)
       \/ GetPage(crawl.pagesVisited, response.href).statusCode < 0
    THEN analyzeWithStatus(
             crawl, response, time,
             SetProperty(IF HasPage(crawl.pagesVisited, response.href)
                         THEN GetPage(crawl.pagesVisited, response.href)
                         ELSE << >>,
                         "statusCode", response.statusCode))
    ELSE crawl

-----------------------------------------------------------------------------
(* The environment: configurations, sites, and what a fetch can answer.    *)

\* Date.now() when the crawl starts (2026-11-01, in seconds of the model's clock)
CrawlStart == 669 * 24 * 60 * 60

\* startCrawler's configuration.basePath: the directory of startPage when
\* subPathOnly is set, the default "" otherwise
Configurations ==
    {[protocol |-> "https:", host |-> "h.com", startPage |-> start.startPage,
      subPathOnly |-> start.subPathOnly, saveToCSV |-> "out.csv",
      showReport |-> TRUE,
      basePath |-> IF start.subPathOnly THEN Dirname(start.startPage) ELSE ""] :
        start \in {[startPage |-> "/docs/index.html", subPathOnly |-> TRUE],
                   [startPage |-> "/docs/index.html", subPathOnly |-> FALSE],
                   [startPage |-> "/index.html", subPathOnly |-> TRUE]}}

\* the attribs of the anchors a site's pages carry, one set per site
Sites ==
    {{[href |-> "/docs/page2.html"], [href |-> "/other/page.html"]},
     {[href |-> "//o.com/x"], [href |-> "page3.html"]},
     {[href |-> "#top"], [name |-> "top"]},
     {[href |-> "https://o.com"], [href |-> "https://o.com/index.html"]},
     {[href |-> "http://O.com/"], [href |-> "http://o.com/index.php"]},
     {[href |-> "https://h.com/index.html"], [href |-> "https://h.com/"]}}

\* the anchor lists a page of the site can carry
RECURSIVE AnchorLists(_, _)
AnchorLists(anchors, length) ==
    IF length = 0 THEN {<< >>}
    ELSE LET shorter == AnchorLists(anchors, length - 1)
         IN  shorter \cup {Append(list, a) : list \in shorter, a \in anchors}

\* what a page says about itself, and the term matrix TextMiner makes of it
PageContents ==
    {[title |-> "Docs Home", description |-> Undefined,
      keywords |-> "docs,home,welcome",
      lastModified |-> "2026-10-31", product |-> "Suite", headerOne |-> "Docs Home",
      terms |-> [vocabulary |-> <<"home", "docs", "://">>, data |-> << <<1, 2, 1>> >>]],
     [title |-> "", description |-> Undefined, keywords |-> Undefined,
      lastModified |-> "2026-10-31", product |-> Undefined, headerOne |-> "",
      terms |-> [vocabulary |-> <<"welcome">>, data |-> << <<1>> >>]]}

Documents ==
    {[title |-> c.title, description |-> c.description, keywords |-> c.keywords,
      lastModified |-> c.lastModified, product |-> c.product,
      headerOne |-> c.headerOne, terms |-> c.terms, anchors |-> anchors] :
        c \in PageContents, anchors \in AnchorLists(site, MaxLinks)}

StatusCodes == {200, 300}

\* where a request for a URL may end after redirects, besides the URL itself
RedirectTargets == {"https://h.com/docs/page2.html"}

NoDocument == [anchors |-> << >>]

\* the responses the fetch of URL can complete with
Responses(URL) ==
    {[href |-> URL, statusCode |-> 200, html |-> TRUE, document |-> document] :
        document \in Documents}
    \cup
    {[href |-> href, statusCode |-> 200, html |-> TRUE, document |-> document] :
        href \in RedirectTargets,
        document \in {d \in Documents : Len(d.anchors) <= 1}}
    \cup
    {[href |-> href, statusCode |-> statusCode, html |-> FALSE,
      document |-> NoDocument] :
        href \in {URL} \cup RedirectTargets, statusCode \in StatusCodes}
    \cup
    {[href |-> URL, statusCode |-> 300, html |-> TRUE,
      document |-> CHOOSE d \in Documents : Len(d.anchors) = 1]}

-----------------------------------------------------------------------------
(* The crawl.                                                              *)

Started(crawl) ==
    /\ pagesVisited = crawl.pagesVisited
    /\ queue = crawl.queue
    /\ queuedLog = crawl.queuedLog
    /\ lastCalls = crawl.lastCalls

\* startCrawler: the queue and the frontier after the root page is queued
Init ==
    /\ configuration \in Configurations
    /\ site \in Sites
    /\ now = CrawlStart
    /\ Started(queueURLToCrawl([pagesVisited |-> << >>, queue |-> << >>,
                                 queuedLog |-> << >>, lastCalls |-> << >>],
                                startURL, startURL, TRUE, CrawlStart))
    /\ phase = "crawling"
    /\ completions = 0
    /\ reported = {}
    /\ lastResponse = [kind |-> "none"]
    /\ answered = << >>

\* the completion branch: adjustTermScores (adjusted is what it made of
\* pagesVisited, or that it threw), then the report hooks
Complete(adjusted) ==
    /\ completions' = completions + 1
    /\ pagesVisited' = adjusted.pagesVisited
    /\ phase' = IF adjusted.threw THEN "crashed" ELSE "complete"
    /\ reported' =
         IF adjusted.threw THEN reported
         ELSE reported
              \cup (IF Truthy(configuration.saveToCSV) THEN {"csv"} ELSE {})
              \cup (IF configuration.showReport THEN {"report"} ELSE {})

\* Finish with the completion branch taken when one task is still unfinished
FinishOneEarly(crawl, time) ==
    /\ queue' = Tail(crawl.queue)
    /\ queuedLog' = crawl.queuedLog
    /\ lastCalls' = crawl.lastCalls
    /\ IF Len(Tail(crawl.queue)) <= 1
       THEN Complete(adjustTermScores(crawl.pagesVisited, time))
       ELSE /\ pagesVisited' = crawl.pagesVisited
            /\ UNCHANGED <<completions, phase, reported>>

\* Finish with queueSize read before done()
FinishBeforeDone(crawl, time) ==
    /\ queue' = Tail(crawl.queue)
    /\ queuedLog' = crawl.queuedLog
    /\ lastCalls' = crawl.lastCalls
    /\ IF Len(crawl.queue) = 0
       THEN Complete(adjustTermScores(crawl.pagesVisited, time))
       ELSE /\ pagesVisited' = crawl.pagesVisited
            /\ UNCHANGED <<completions, phase, reported>>

\* the end of analyzePage: done(), then the completion branch when the
\* crawler has no unfinished task left
Finish(crawl, time) ==
    /\ queue' = Tail(crawl.queue)
    /\ queuedLog' = crawl.queuedLog
    /\ lastCalls' = crawl.lastCalls
    /\ IF Len(Tail(crawl.queue)) = 0
       THEN Complete(adjustTermScores(crawl.pagesVisited, time))
       ELSE /\ pagesVisited' = crawl.pagesVisited
            /\ UNCHANGED <<completions, phase, reported>>

Crawl == [pagesVisited |-> pagesVisited, queue |-> queue,
          queuedLog |-> queuedLog, lastCalls |-> << >>]

\* AnalyzePageError that marks the record of the failed URL analyze = false
AnalyzePageErrorMarked ==
    /\ phase # "crashed"
    /\ queue # << >>
    /\ now' = now + 1
    /\ lastResponse' = [kind |-> "error", URL |-> Head(queue)]
    /\ answered' = Append(answered, [URL |-> Head(queue), outcome |-> "error"])
    /\ Finish([Crawl EXCEPT !.pagesVisited =
                   PutPage(@, Head(queue),
                           SetProperty(GetPage(@, Head(queue)), "analyze", FALSE))],
              now')
    /\ UNCHANGED <<configuration, site>>

\* AnalyzePageError that calls done() and returns before the test of
\* queueSize
AnalyzePageErrorReturns ==
    /\ phase # "crashed"
    /\ queue # << >>
    /\ now' = now + 1
    /\ lastResponse' = [kind |-> "error", URL |-> Head(queue)]
    /\ answered' = Append(answered, [URL |-> Head(queue), outcome |-> "error"])
    /\ queue' = Tail(queue)
    /\ lastCalls' = << >>
    /\ UNCHANGED <<configuration, site, pagesVisited, queuedLog, completions,
                   phase, reported>>

\* analyzePage(error, response, done) with an error: the fetch of the oldest
\* unfinished task failed
AnalyzePageError ==
    /\ phase # "crashed"
    /\ queue # << >>
    /\ now' = now + 1
    /\ lastResponse' = [kind |-> "error", URL |-> Head(queue)]
    /\ answered' = Append(answered, [URL |-> Head(queue), outcome |-> "error"])
    /\ Finish(Crawl, now')
    /\ UNCHANGED <<configuration, site>>

\* the handler's work on the frontier is done: the crawl stays within
\* MaxPages records, and the handler ends
Handled(crawl, time) ==
    /\ Len(crawl.pagesVisited) <= MaxPages
    /\ Finish(crawl, time)

\* analyzePage(error, response, done) with a response to the oldest
\* unfinished task
AnalyzePageResponse ==
    /\ phase # "crashed"
    /\ queue # << >>
    /\ \E response \in Responses(Head(queue)) :
         /\ now' = now + 1
         /\ lastResponse' = [kind |-> "response", URL |-> Head(queue),
                             href |-> response.href,
                             statusCode |-> response.statusCode,
                             html |-> response.html,
                             anchors |-> response.document.anchors]
         /\ answered' = Append(answered, [URL |-> Head(queue),
                                          outcome |-> "response"])
         /\ Handled(analyzeResponse(Crawl, response, now + 1), now + 1)
    /\ UNCHANGED <<configuration, site>>

Next == AnalyzePageError \/ AnalyzePageResponse

Spec == Init /\ [][Next]_vars

\* the fetch service completes every queued fetch
FairSpec == Spec /\ WF_vars(Next)

\* ---------------------------------------------------------------------
\* Properties of the frontier and the crawl loop
\* ---------------------------------------------------------------------

CountKey(pages, key) ==
    Cardinality({i \in 1..Len(pages) : pages[i][1] = key})

QueuedURLs == {queuedLog[i].URL : i \in 1..Len(queuedLog)}

EnqueuedAnalyze(URL) ==
    \E i \in 1..Len(queuedLog) : queuedLog[i].URL = URL /\ queuedLog[i].analyze

EnqueuedProbe(URL) ==
    \E i \in 1..Len(queuedLog) : queuedLog[i].URL = URL /\ ~queuedLog[i].analyze

EnqueueURLs == {"https://h.com/docs/index.html", "https://h.com/docs/page2.html",
                "//o.com/x", "https://o.com/"}

FrontierKey(URL) ==
    IF SubSeq(URL, 1, 2) = "//" THEN "https:" \o URL ELSE URL

\* C1: queueURLToCrawl called for a URL that has no record returns true, adds
\* exactly one record and one fetch; called again for the same URL, with any
\* referrer and any mode, it returns false and leaves the records and the
\* fetch queue as they are.  The keys of pagesVisited are pairwise distinct,
\* and within the calls of one handler a URL is queued by at most the first
\* call that names it.
C1_IdempotentEnqueue ==
    /\ \A URL \in EnqueueURLs, analyze \in BOOLEAN :
         LET key   == FrontierKey(URL)
             first == queueURLToCrawl(Crawl, URL, "https://h.com/", analyze, now)
             again == queueURLToCrawl([first EXCEPT !.lastCalls = << >>],
                                      URL, URL, ~analyze, now + 1)
         IN  /\ first.lastCalls[1].isQueued = ~HasPage(pagesVisited, key)
             /\ CountKey(first.pagesVisited, key) = 1
             /\ HasPage(pagesVisited, key) =>
                    first.pagesVisited = pagesVisited /\ first.queue = queue
             /\ ~HasPage(pagesVisited, key) =>
                    /\ Len(first.pagesVisited) = Len(pagesVisited) + 1
                    /\ first.queue = Append(queue, key)
             /\ ~again.lastCalls[1].isQueued
             /\ again.pagesVisited = first.pagesVisited
             /\ again.queue = first.queue
    /\ \A i, j \in 1..Len(pagesVisited) :
         i # j => pagesVisited[i][1] # pagesVisited[j][1]
    /\ \A i, j \in 1..Len(lastCalls) :
         (i < j /\ lastCalls[i].URL = lastCalls[j].URL) => ~lastCalls[j].isQueued

\* a handler called queueURLToCrawl twice for one URL: queued, then refused
C1_Witness ==
    \E i, j \in 1..Len(lastCalls) :
       /\ i < j
       /\ lastCalls[i].URL = lastCalls[j].URL
       /\ lastCalls[i].isQueued
       /\ ~lastCalls[j].isQueued
       /\ CountKey(pagesVisited, lastCalls[i].URL) = 1

\* C2: no URL key is handed to the fetch service twice and no URL key gets
\* two completions, whether its fetch succeeded, failed or was never read.
C2_AtMostOnce ==
    /\ \A i, j \in 1..Len(queuedLog) :
         i # j => queuedLog[i].URL # queuedLog[j].URL
    /\ \A i, j \in 1..Len(answered) :
         i # j => answered[i].URL # answered[j].URL

\* a page links to a URL whose fetch had failed; the call is refused
C2_Witness ==
    /\ lastResponse.kind = "response"
    /\ \E i \in 1..Len(answered), j \in 1..Len(lastCalls) :
         /\ answered[i].outcome = "error"
         /\ lastCalls[j].URL = answered[i].URL
         /\ ~lastCalls[j].isQueued
         /\ \A k \in 1..Len(queue) : queue[k] # answered[i].URL

AllAnswered ==
    /\ Len(answered) = Len(queuedLog)
    /\ \A URL \in QueuedURLs : \E i \in 1..Len(answered) : answered[i].URL = URL

\* C3: the completion branch is entered at most once, only when the fetch
\* queue is empty and every queued URL has had its completion, and it is
\* entered eventually.
C3_CompletionOnce ==
    /\ [](completions <= 1)
    /\ [](completions >= 1 => (queue = << >> /\ AllAnswered))
    /\ <>(completions = 1)

\* the completion branch ran after three URLs were queued and answered
C3_Witness ==
    /\ completions = 1
    /\ Len(queuedLog) >= 3
    /\ AllAnswered

\* C4: every crawl reaches, and stays in, a state with an empty fetch queue
\* in which the completion branch has been entered.
C4_CrawlTerminates ==
    <>[](queue = << >> /\ phase \in {"complete", "crashed"})

\* a crawl ended with failed and successful fetches behind it
C4_Witness ==
    /\ phase = "complete"
    /\ queue = << >>
    /\ \E i, j \in 1..Len(answered) :
         answered[i].outcome = "error" /\ answered[j].outcome = "response"

\* C5: a completion makes enqueue calls only when it reports a status below
\* 300 with a parsed document for a URL queued in analyze mode; every record
\* other than the root that names a referrer names a record queued in
\* analyze mode, answered with a status below 300, and analyzed.
C5_LinksOnlyFromAnalyzed ==
    /\ lastResponse.kind = "error" => lastCalls = << >>
    /\ (lastResponse.kind = "response" /\ lastCalls # << >>) =>
         /\ lastResponse.statusCode < 300
         /\ lastResponse.html
         /\ EnqueuedAnalyze(lastResponse.href)
    /\ \A i \in 1..Len(pagesVisited) :
         LET URL         == pagesVisited[i][1]
             pageDetails == pagesVisited[i][2]
         IN  (URL # startURL /\ HasProperty(pageDetails, "referrer")) =>
                /\ HasPage(pagesVisited, pageDetails.referrer)
                /\ EnqueuedAnalyze(pageDetails.referrer)
                /\ LET from == GetPage(pagesVisited, pageDetails.referrer)
                   IN  /\ from.analyze
                       /\ from.statusCode >= 0
                       /\ from.statusCode < 300
                       /\ \/ HasProperty(from, "terms")
                          \/ HasProperty(from, "wordFrequencyList")

\* a page queued in analyze mode, found through another page, was answered
\* with status 300 and a document with links: none of them was followed
C5_Witness ==
    /\ lastResponse.kind = "response"
    /\ lastResponse.URL # startURL
    /\ lastResponse.statusCode >= 300
    /\ lastResponse.html
    /\ Len(lastResponse.anchors) >= 1
    /\ EnqueuedAnalyze(lastResponse.href)
    /\ lastCalls = << >>

ScopeCases ==
    {[href |-> "/docs/page2.html", key |-> "https://h.com/docs/page2.html",
      analyze |-> TRUE],
     [href |-> "https://h.com/docs/page2.html", key |-> "https://h.com/docs/page2.html",
      analyze |-> TRUE],
     [href |-> "/other/page.html", key |-> "https://h.com/other/page.html",
      analyze |-> FALSE],
     [href |-> "https://o.com/x", key |-> "https://o.com/x", analyze |-> FALSE],
     [href |-> "//o.com/x", key |-> "https://o.com/x", analyze |-> FALSE],
     [href |-> "http://o.com/a/b.html", key |-> "http://o.com/a/b.html",
      analyze |-> FALSE],
     [href |-> "https://o.com/docs/page2.html", key |-> "https://o.com/docs/page2.html",
      analyze |-> FALSE]}

HostOf(URL) ==
    IF URL = "https://h.com" THEN "h.com"
    ELSE IF Len(URL) >= 14 /\ SubSeq(URL, 1, 14) = "https://h.com/" THEN "h.com"
    ELSE "other"

\* C6: with subPathOnly set and basePath "/docs", a link on an analyzed page
\* to /docs/page2.html makes a record with analyze = true, and a link to
\* /other/page.html on the host, or to a URL of another host, makes a record
\* with analyze = false, when the URL had no record before.
C6_ScopeClassification ==
    (configuration.subPathOnly /\ configuration.basePath = "/docs") =>
       /\ \A i \in 1..Len(queuedLog) :
            /\ queuedLog[i].URL = "https://h.com/docs/page2.html" => queuedLog[i].analyze
            /\ queuedLog[i].URL = "https://h.com/other/page.html" => ~queuedLog[i].analyze
            /\ HostOf(queuedLog[i].URL) # "h.com" => ~queuedLog[i].analyze
       /\ \A case \in ScopeCases :
            LET after == followAnchors(Crawl, <<[href |-> case.href]>>, 1,
                                       "/docs/index.html", startURL, now)
            IN  ~HasPage(pagesVisited, case.key) =>
                   /\ HasPage(after.pagesVisited, case.key)
                   /\ GetPage(after.pagesVisited, case.key).analyze = case.analyze
                   /\ after.queue = Append(queue, case.key)

\* an analyzed page linked to /docs/page2.html and to /other/page.html
C6_Witness ==
    /\ configuration.subPathOnly
    /\ configuration.basePath = "/docs"
    /\ lastResponse.kind = "response"
    /\ \E i, j \in 1..Len(lastCalls) :
         /\ lastCalls[i].URL = "https://h.com/docs/page2.html"
         /\ lastCalls[i].isQueued /\ lastCalls[i].analyze
         /\ lastCalls[j].URL = "https://h.com/other/page.html"
         /\ lastCalls[j].isQueued /\ ~lastCalls[j].analyze

IndexAliases(scheme) ==
    {scheme \o "//o.com", scheme \o "//o.com/", scheme \o "//o.com/index.html",
     scheme \o "//o.com/index.php", scheme \o "//o.com/index.jsp",
     scheme \o "//O.com/", scheme \o "//O.com/index.html"}

IndexAliasAnchors(scheme) ==
    <<[href |-> scheme \o "//o.com/index.html"], [href |-> scheme \o "//o.com"],
      [href |-> scheme \o "//O.com/"], [href |-> scheme \o "//o.com/index.php"],
      [href |-> scheme \o "//o.com/"], [href |-> scheme \o "//o.com/index.jsp"],
      [href |-> scheme \o "//O.com/index.html"]>>

AliasRecords(pages, scheme) ==
    {i \in 1..Len(pages) : pages[i][1] \in IndexAliases(scheme)}

AliasProbes(log, scheme) ==
    {i \in 1..Len(log) : log[i].URL \in IndexAliases(scheme)}

\* C7: the hrefs scheme://o.com, scheme://o.com/ and scheme://o.com/index.html
\* (and index.php, index.jsp) of a host out of scope all get the key
\* scheme://o.com/: no record has another of them as its key, at most one
\* fetch is ever queued for them, and while the crawl runs, whatever was
\* discovered before, after all of them are discovered one record exists
\* for them, under that key, in probe mode, and one fetch was queued.
C7_IndexAliasing ==
    /\ \A scheme \in {"https:", "http:"} :
         /\ \A i \in AliasRecords(pagesVisited, scheme) :
              pagesVisited[i][1] = scheme \o "//o.com/"
         /\ Cardinality(AliasProbes(queuedLog, scheme)) <= 1
         /\ LET after == followAnchors(Crawl, IndexAliasAnchors(scheme), 1,
                                       "/docs/index.html", startURL, now)
            IN  phase = "crawling" =>
                /\ \A i \in AliasRecords(after.pagesVisited, scheme) :
                     /\ after.pagesVisited[i][1] = scheme \o "//o.com/"
                     /\ ~after.pagesVisited[i][2].analyze
                /\ Cardinality(AliasRecords(after.pagesVisited, scheme)) = 1
                /\ Cardinality(AliasProbes(after.queuedLog, scheme)) = 1
                /\ \A i \in 1..Len(after.lastCalls) :
                     after.lastCalls[i].URL = scheme \o "//o.com/"

\* a page carried two different aliases of the index page of a host out of
\* scope: one record and one probe came of them
C7_Witness ==
    /\ lastResponse.kind = "response"
    /\ \E scheme \in {"https:", "http:"} :
         /\ \E i, j \in 1..Len(lastResponse.anchors) :
              /\ lastResponse.anchors[i] # lastResponse.anchors[j]
              /\ "href" \in DOMAIN lastResponse.anchors[i]
              /\ "href" \in DOMAIN lastResponse.anchors[j]
              /\ lastResponse.anchors[i].href \in IndexAliases(scheme)
              /\ lastResponse.anchors[j].href \in IndexAliases(scheme)
         /\ Cardinality(AliasRecords(pagesVisited, scheme)) = 1
         /\ Cardinality(AliasProbes(queuedLog, scheme)) = 1
         /\ HasPage(pagesVisited, scheme \o "//o.com/")

HostIndexAliases ==
    {"https://h.com/", "https://h.com", "https://h.com/index.html"}

\* C8: when the scope covers the root of the host (subPathOnly off, or
\* basePath "/"), links to https://h.com/, https://h.com and
\* https://h.com/index.html are all queued as https://h.com/, and the
\* index page of the host has one record only.
C8_HostIndexOneRecord ==
    (~configuration.subPathOnly \/ configuration.basePath = "/") =>
       /\ lastResponse.kind = "response" =>
            \A i \in 1..Len(lastCalls) :
               lastCalls[i].URL \in HostIndexAliases =>
                  lastCalls[i].URL = "https://h.com/"
       /\ Cardinality({i \in 1..Len(pagesVisited) :
                          pagesVisited[i][1] \in HostIndexAliases}) <= 1

EnqueuedModeKept(URL) ==
    \A i \in 1..Len(queuedLog) :
       queuedLog[i].URL = URL => GetPage(pagesVisited, URL).analyze = queuedLog[i].analyze

\* C9 as claimed: the analyze flag of a record is the mode it was queued with,
\* whatever the fetch answered and whatever enqueue calls came later.
C9_ModeImmutable ==
    \A i \in 1..Len(pagesVisited) : EnqueuedModeKept(pagesVisited[i][1])

AnalyzeCleared(URL) ==
    /\ lastResponse'.kind = "response"
    /\ lastResponse'.href = URL
    /\ lastResponse'.statusCode >= 300 \/ ~lastResponse'.html

\* C9 amended: the analyze flag of a record changes only from true to false,
\* and only in the completion that reports, for the record's URL, a status
\* of 300 or more or no parsed document; a failed fetch, a parsed document
\* with a status below 300, a completion for another URL and every later
\* enqueue call leave it as it is.
C9_ModeOnlyCleared ==
    [][\A i \in 1..Len(pagesVisited) :
          LET URL == pagesVisited[i][1]
              was == pagesVisited[i][2]
          IN  (HasProperty(was, "analyze") /\ HasPage(pagesVisited', URL)) =>
                 \/ GetPage(pagesVisited', URL).analyze = was.analyze
                 \/ /\ was.analyze
                    /\ ~GetPage(pagesVisited', URL).analyze
                    /\ AnalyzeCleared(URL)]_vars

\* a record queued in analyze mode lost the flag to a response that was not
\* HTML, and a later page's link to it was refused without restoring it
C9_Witness ==
    /\ lastResponse.kind = "response"
    /\ \E i \in 1..Len(lastCalls) :
         /\ ~lastCalls[i].isQueued
         /\ lastCalls[i].analyze
         /\ EnqueuedAnalyze(lastCalls[i].URL)
         /\ lastCalls[i].URL # lastResponse.href
         /\ ~GetPage(pagesVisited, lastCalls[i].URL).analyze
         /\ GetPage(pagesVisited, lastCalls[i].URL).statusCode = 200

\* C10: a record queued with analyze = false keeps the empty title,
\* description, keywords, headerOne, lastModified, product and version and
\* the pageScore 0 it was created with, and never gets pageAnalysis,
\* wordFrequencyList or terms: only statusCode and completeTime are written.
C10_ProbeOnlyNeverAnalyzed ==
    \A i \in 1..Len(pagesVisited) :
       LET URL         == pagesVisited[i][1]
           pageDetails == pagesVisited[i][2]
       IN  EnqueuedProbe(URL) =>
              /\ ~pageDetails.analyze
              /\ pageDetails.title = "" /\ pageDetails.description = ""
              /\ pageDetails.keywords = "" /\ pageDetails.headerOne = ""
              /\ pageDetails.lastModified = "" /\ pageDetails.product = ""
              /\ pageDetails.version = "" /\ pageDetails.pageScore = 0
              /\ DOMAIN pageDetails \subseteq
                    {"statusCode", "queueTime", "referrer", "analyze", "pageScore",
                     "title", "description", "keywords", "headerOne",
                     "lastModified", "product", "version", "completeTime"}

\* the probe of a URL out of scope was answered with status 200 and a parsed
\* document with links; the record got the status and nothing else
C10_Witness ==
    /\ lastResponse.kind = "response"
    /\ EnqueuedProbe(lastResponse.href)
    /\ lastResponse.statusCode = 200
    /\ lastResponse.html
    /\ Len(lastResponse.anchors) >= 1
    /\ lastCalls = << >>
    /\ GetPage(pagesVisited, lastResponse.href).statusCode = 200
    /\ HasProperty(GetPage(pagesVisited, lastResponse.href), "completeTime")

\* C11: a record whose statusCode is recorded (>= 0) stays in the frontier
\* and is never written again: every later step, the completion of a fetch
\* that reports the same URL included, leaves its statusCode, analyze flag,
\* metadata, score and completeTime as they were.
C11_RecordMonotonic ==
    [][\A i \in 1..Len(pagesVisited) :
          pagesVisited[i][2].statusCode >= 0 =>
             /\ HasPage(pagesVisited', pagesVisited[i][1])
             /\ GetPage(pagesVisited', pagesVisited[i][1]) = pagesVisited[i][2]]_vars

\* a response reported a URL whose record already had another status: the
\* record kept the status it had
C11_Witness ==
    /\ lastResponse.kind = "response"
    /\ HasPage(pagesVisited, lastResponse.href)
    /\ GetPage(pagesVisited, lastResponse.href).statusCode >= 0
    /\ GetPage(pagesVisited, lastResponse.href).statusCode # lastResponse.statusCode

\* the test adjustTermScores hands a record to scorePage on
HandedToScorePage(pageDetails) ==
    /\ pageDetails.statusCode # -1
    /\ HasProperty(pageDetails, "analyze") /\ pageDetails.analyze
    /\ HasProperty(pageDetails, "pageScore") /\ pageDetails.pageScore = 0

\* C12 as claimed: a record scorePage has given its pageScore and pageAnalysis
\* (and taken the term matrix from) is not scored again, whatever the score,
\* 0 included: the completion pass adjustTermScores hands no such record to
\* scorePage.
C12_ScoredOnce ==
    completions >= 1 =>
       \A i \in 1..Len(pagesVisited) :
          HasProperty(pagesVisited[i][2], "pageAnalysis") =>
             ~HandedToScorePage(pagesVisited[i][2])

\* C13 as claimed: after the fetch of a queued URL completed with a transport
\* error, the URL's record is marked failed (analyze = false) and is still in
\* the record map, at reporting time too.
C13_ErrorMarksFailed ==
    lastResponse.kind = "error" =>
       /\ HasPage(pagesVisited, lastResponse.URL)
       /\ ~GetPage(pagesVisited, lastResponse.URL).analyze

\* the step is a completion with a transport error
ErrorCompletion == lastResponse'.kind = "error" /\ answered' # answered

\* the records adjustTermScores keeps: those with a status
AnsweredRecords(pages) == SelectSeq(pages, LAMBDA entry : entry[2].statusCode # -1)

\* C13 amended: a completion with a transport error writes no record: while
\* tasks remain the record map is as it was (the failed URL's record keeps
\* the statusCode and the analyze flag it had and gets no score), and when
\* it was the last task, the reports see the record map without the records
\* that have no status, the failed URL's among them.
C13_ErrorLeavesRecord ==
    [][ErrorCompletion =>
          /\ completions' = completions => pagesVisited' = pagesVisited
          /\ phase' = "complete" => pagesVisited' = AnsweredRecords(pagesVisited)
          /\ \A i \in 1..Len(pagesVisited') :
                pagesVisited'[i] \in {pagesVisited[j] : j \in 1..Len(pagesVisited)}]_vars

\* the last task failed: the reports ran, and the failed URL, queued in
\* analyze mode, has no record in what they saw
C13_Witness ==
    /\ lastResponse.kind = "error"
    /\ phase = "complete"
    /\ reported # {}
    /\ EnqueuedAnalyze(lastResponse.URL)
    /\ ~HasPage(pagesVisited, lastResponse.URL)
    /\ Len(pagesVisited) >= 1

\* C14: a completion with a transport error ends like every other: done()
\* takes the task off the queue and the completion branch is entered exactly
\* when no task is left; so after a failure with URLs still queued, every
\* queued URL gets its completion and the completion branch is entered.
C14_FailureDoesNotAbort ==
    /\ [][ErrorCompletion =>
            /\ queue' = Tail(queue)
            /\ completions' =
                  IF Tail(queue) = << >> THEN completions + 1 ELSE completions]_vars
    /\ (lastResponse.kind = "error" /\ queue # << >>)
          ~> (completions = 1 /\ queue = << >> /\ AllAnswered)

\* the crawl completed although a fetch failed while others were queued, and
\* a later one was answered
C14_Witness ==
    /\ completions = 1
    /\ \E i, j \in 1..Len(answered) :
         /\ i < j
         /\ answered[i].outcome = "error"
         /\ answered[j].outcome = "response"

\* the step is a completion with a response
ResponseCompletion == lastResponse'.kind = "response" /\ answered' # answered

\* the record under URL is in analyze mode and has no status yet
AwaitsAnalysis(URL) ==
    /\ HasPage(pagesVisited, URL)
    /\ GetPage(pagesVisited, URL).statusCode = -1
    /\ GetPage(pagesVisited, URL).analyze

\* C15: when the fetch of a record in analyze mode completes with a status of
\* 300 or more, or with a lower status and no parsed document, the record
\* gets the status code, analyze = false and completeTime and nothing else
\* (no metadata, no score, no analysis), the completion makes no enqueue
\* call and creates no record, and the record stays in the record map.
C15_NotAnalyzedResponse ==
    [][(/\ ResponseCompletion
        /\ AwaitsAnalysis(lastResponse'.href)
        /\ lastResponse'.statusCode >= 300 \/ ~lastResponse'.html) =>
          /\ HasPage(pagesVisited', lastResponse'.href)
          /\ GetPage(pagesVisited', lastResponse'.href) =
                SetProperty(
                    SetProperty(
                        SetProperty(GetPage(pagesVisited, lastResponse'.href),
                                    "statusCode", lastResponse'.statusCode),
                        "analyze", FALSE),
                    "completeTime", now')
          /\ queuedLog' = queuedLog
          /\ lastCalls' = << >>
          /\ queue' = Tail(queue)
          /\ Len(pagesVisited') <= Len(pagesVisited)]_vars

\* a page queued in analyze mode was answered with status 300 and a parsed
\* document that has links: its record has the status and analyze = false,
\* no analysis, and nothing was queued
C15_Witness ==
    /\ lastResponse.kind = "response"
    /\ lastResponse.statusCode = 300
    /\ lastResponse.html
    /\ Len(lastResponse.anchors) >= 1
    /\ EnqueuedAnalyze(lastResponse.href)
    /\ HasPage(pagesVisited, lastResponse.href)
    /\ GetPage(pagesVisited, lastResponse.href).statusCode = 300
    /\ GetPage(pagesVisited, lastResponse.href).completeTime = now
    /\ ~GetPage(pagesVisited, lastResponse.href).analyze
    /\ ~HasProperty(GetPage(pagesVisited, lastResponse.href), "pageAnalysis")
    /\ GetPage(pagesVisited, lastResponse.href).title = ""

\* C16: when saveResultsToCSVFile or finalReport has run, the record map
\* they read holds no record whose statusCode is still -1.
C16_NoUnansweredReported ==
    reported # {} =>
       \A i \in 1..Len(pagesVisited) : pagesVisited[i][2].statusCode # -1

\* both reports ran on a record map from which the record of a queued URL
\* that never got a status had been deleted
C16_Witness ==
    /\ reported = {"csv", "report"}
    /\ Len(pagesVisited) >= 1
    /\ \E URL \in QueuedURLs : ~HasPage(pagesVisited, URL)

\* hrefs cleanURL ignores: undefined, null, empty, fragments and queries
IgnoredHrefs ==
    {Undefined, Null, "", "#", "#top", "#/docs/page2.html", "?", "?q=1",
     "?//o.com/x"}

\* the href is undefined, null, empty, or starts with "#" or "?"
IsIgnoredHref(href) ==
    \/ href \in {Undefined, Null}
    \/ Len(href) = 0
    \/ CharAt(href, 1) \in {"#", "?"}

\* C17: for an href that is undefined, null, empty, or starts with "#" or
\* "?", cleanURL returns null and leaves the record map and the fetch queue
\* as they are; a page all of whose anchors have such hrefs makes no enqueue
\* call.
C17_IgnoredHrefs ==
    /\ \A href \in IgnoredHrefs :
          /\ IsIgnoredHref(href)
          /\ \A currentURL \in {"/docs/index.html", "/index.html", "/"} :
                cleanURL(Crawl, href, currentURL, startURL, now) =
                   [crawl |-> Crawl, realURL |-> Null]
    /\ (/\ lastResponse.kind = "response"
        /\ \A i \in 1..Len(lastResponse.anchors) :
              IsIgnoredHref(Property(lastResponse.anchors[i], "href"))) =>
          lastCalls = << >>

\* a page in analyze mode was read, its anchors were a fragment link and an
\* anchor without href, and nothing was queued nor recorded for them
C17_Witness ==
    /\ lastResponse.kind = "response"
    /\ lastResponse.statusCode = 200
    /\ lastResponse.html
    /\ Len(lastResponse.anchors) = 2
    /\ \E i, j \in 1..2 :
         /\ Property(lastResponse.anchors[i], "href") = "#top"
         /\ Property(lastResponse.anchors[j], "href") = Undefined
    /\ HasPage(pagesVisited, lastResponse.href)
    /\ HasProperty(GetPage(pagesVisited, lastResponse.href), "pageAnalysis")
    /\ lastCalls = << >>
    /\ Len(queuedLog) = 1
    /\ Len(pagesVisited) = 1

\* hrefs on the crawled host, absolute, from the root and relative to the page
InScopeHrefs ==
    {"https://h.com/docs/index.html", "/docs/index.html", "index.html",
     "https://h.com/docs/page2.html", "/docs/page2.html", "page2.html",
     "https://h.com/index.html", "/index.html"}

\* C18 as claimed: for every href in scope (absolute, from the root or
\* relative to the page) whose canonical absolute URL already has a record,
\* cleanURL returns null.
C18_ResolverDedup ==
    \A href \in InScopeHrefs :
       (/\ isIntendedSubPath(URLParse(href))
        /\ HasPage(pagesVisited, MadeURL(URLParse(href), "/docs/index.html"))) =>
          cleanURL(Crawl, href, "/docs/index.html", startURL, now).realURL = Null

\* a fetched page in analyze mode with the given title and keywords, no other
\* metadata, and a term matrix of the terms "docs", with the given
\* frequency, and "home", with frequency 2
ScoreCase(title, keywords, frequency) ==
    [statusCode |-> 200, analyze |-> TRUE, pageScore |-> 0, title |-> title,
     description |-> Undefined, keywords |-> keywords, headerOne |-> "",
     lastModified |-> Undefined, product |-> Undefined, version |-> "",
     terms |-> [vocabulary |-> <<"docs", "home">>,
                data |-> << <<frequency, 2>> >>]]

\* the frequency a frequency list gives a term
FrequencyOf(wordFrequencyList, term) ==
    wordFrequencyList[CHOOSE i \in 1..Len(wordFrequencyList) :
                         wordFrequencyList[i].term = term].frequency

\* what scorePage makes of a page with a title and no keywords
TitleScored(title, frequency) ==
    scorePage(ScoreCase(title, Undefined, frequency), now).pageDetails

\* what the title adds to the score of the page
TitleGain(title, frequency) ==
    TitleScored(title, frequency).pageScore - TitleScored("", frequency).pageScore

\* C19 as claimed: a title word equal to a term of frequency > 1 adds exactly
\* 2 to the score and 2 to the term's frequency; equal to a term of frequency
\* <= 1 it changes neither the score nor the term's frequency.
C19_TitleBoostAboveOne ==
    \A frequency \in 1..3 :
       /\ TitleGain("Docs", frequency) = IF frequency > 1 THEN 2 ELSE 0
       /\ FrequencyOf(TitleScored("Docs", frequency).wordFrequencyList, "docs") =
             IF frequency > 1 THEN frequency + 2 ELSE frequency

\* C19 amended: a title word (lower-cased) equal to a term always adds 2 to
\* the term's frequency, and adds 2 to the score only when the term's
\* frequency was > 1 at that moment; so a term of frequency 2 gives score +2
\* and frequency 4, a term of frequency 1 gives score +0 and frequency 3, and
\* a title that names such a term twice scores +2 on the second word. Terms
\* the title does not name keep their frequency.
C19_TitleBoost ==
    /\ \A frequency \in 1..3 :
          /\ TitleGain("Docs", frequency) = IF frequency > 1 THEN 2 ELSE 0
          /\ FrequencyOf(TitleScored("Docs", frequency).wordFrequencyList, "docs") =
                frequency + 2
          /\ FrequencyOf(TitleScored("Docs", frequency).wordFrequencyList, "home") = 2
    /\ TitleGain("docs Docs", 1) = 2
    /\ FrequencyOf(TitleScored("docs Docs", 1).wordFrequencyList, "docs") = 5
    /\ \A i \in 1..Len(pagesVisited) :
          (/\ HasProperty(pagesVisited[i][2], "wordFrequencyList")
           /\ pagesVisited[i][2].title = "Docs Home") =>
             FrequencyOf(pagesVisited[i][2].wordFrequencyList, "home") = 3

\* a page titled "Docs Home" whose body has "home" once and "docs" twice was
\* scored in the crawl: "home" has frequency 3 in its frequency list
C19_Witness ==
    \E i \in 1..Len(pagesVisited) :
       /\ HasProperty(pagesVisited[i][2], "wordFrequencyList")
       /\ pagesVisited[i][2].title = "Docs Home"
       /\ FrequencyOf(pagesVisited[i][2].wordFrequencyList, "home") = 3
       /\ FrequencyOf(pagesVisited[i][2].wordFrequencyList, "docs") >= 4

\* keywords values of one, two and three comma-separated entries
KeywordCases == {"docs", "docs,home", "docs, home", "x,docs,home", "docs,home,x"}

\* a string with every occurrence of a one-character pattern replaced
RECURSIVE ReplaceEvery(_, _, _)
ReplaceEvery(s, pattern, replacement) ==
    IF FirstOf(s, {pattern}, 1) = 0 THEN s
    ELSE SubSeq(s, 1, FirstOf(s, {pattern}, 1) - 1) \o replacement
         \o ReplaceEvery(SubSeq(s, FirstOf(s, {pattern}, 1) + 1, Len(s)),
                         pattern, replacement)

\* the entries of a keywords value split on every comma and on spaces
KeywordEntries(keywords) == Split(ReplaceEvery(keywords, ",", " "), " ")

\* what the keywords add to the score of a page with no title whose terms
\* "docs" and "home" both have frequency 2
KeywordGain(keywords) ==
    scorePage(ScoreCase("", keywords, 2), now).pageDetails.pageScore
    - scorePage(ScoreCase("", Undefined, 2), now).pageDetails.pageScore

\* C20 as claimed: the keywords value is split on every comma and on
\* whitespace, and each entry that equals a term of frequency > 1 adds
\* exactly 1 to the score, however many entries the value has.
C20_KeywordEntries ==
    \A keywords \in KeywordCases :
       KeywordGain(keywords) =
          Cardinality({i \in 1..Len(KeywordEntries(keywords)) :
                          KeywordEntries(keywords)[i] \in {"docs", "home"}})

\* s has the substring sub
Contains(s, sub) ==
    \E i \in 1..(Len(s) - Len(sub) + 1) : SubSeq(s, i, i + Len(sub) - 1) = sub

\* a fetched page in analyze mode with the given last-modified and nothing
\* else: no title, description, keywords, product nor H1. Without the age
\* rule its score is -1, for the missing H1.
AgeCase(lastModified) ==
    [statusCode |-> 200, analyze |-> TRUE, pageScore |-> 0, title |-> "",
     description |-> Undefined, keywords |-> Undefined, headerOne |-> "",
     lastModified |-> lastModified, product |-> Undefined, version |-> "",
     terms |-> [vocabulary |-> <<"docs">>, data |-> << <<1>> >>]]

\* the AgeCase page as scorePage leaves it at a time
AgeScored(lastModified, time) == scorePage(AgeCase(lastModified), time).pageDetails

\* the moment a last-modified date is exactly 365 days old
OneYearAfter(lastModified) == DateParse(lastModified).value + OneYear

\* the score and the clause the age rule gave at a time
AgedAs(lastModified, time, score, clause) ==
    /\ AgeScored(lastModified, time).pageScore = score - 1
    /\ Contains(AgeScored(lastModified, time).pageAnalysis, clause)

\* the age rule one unit before, at, one unit after and one day after the
\* moment a date is 365 days old, at the start of the crawl, and on pages
\* without last-modified
FreshnessCasesScored ==
    /\ \A lastModified \in {"2026-10-31", "2025-11-01", "2025-10-31"} :
          /\ AgedAs(lastModified, OneYearAfter(lastModified),
                    1, "; good: page is recent.")
          /\ AgedAs(lastModified, OneYearAfter(lastModified) - 1,
                    1, "; good: page is recent.")
          /\ AgedAs(lastModified, OneYearAfter(lastModified) + 1,
                    -1, "; bad: page over 1 year old.")
          /\ AgedAs(lastModified, OneYearAfter(lastModified) + OneYear \div 365,
                    -1, "; bad: page over 1 year old.")
    /\ AgedAs("2025-11-01", CrawlStart, 1, "; good: page is recent.")
    /\ AgedAs("2025-10-31", CrawlStart, -1, "; bad: page over 1 year old.")
    /\ AgedAs(Undefined, CrawlStart, -2, "; bad: page missing last-modified.")
    /\ AgedAs("", CrawlStart, -2, "; bad: page missing last-modified.")

\* C21: with lastModified present, an age of 365 days or less adds 1 to the
\* score with the clause "good: page is recent.", an age of more than 365
\* days (by the smallest unit, or 366 days) subtracts 1 with the clause "bad:
\* page over 1 year old."; with lastModified absent the score decreases by 2.
C21_FreshnessBoundary ==
    /\ FreshnessCasesScored
    /\ \A i \in 1..Len(pagesVisited) :
          (/\ HasProperty(pagesVisited[i][2], "pageAnalysis")
           /\ pagesVisited[i][2].lastModified = "2026-10-31") =>
             Contains(pagesVisited[i][2].pageAnalysis, "; good: page is recent.")

\* a page last modified the day before the crawl was scored: its analysis
\* says it is recent
C21_Witness ==
    \E i \in 1..Len(pagesVisited) :
       /\ HasProperty(pagesVisited[i][2], "pageAnalysis")
       /\ pagesVisited[i][2].lastModified = "2026-10-31"
       /\ now - DateParse("2026-10-31").value <= OneYear
       /\ Contains(pagesVisited[i][2].pageAnalysis, "; good: page is recent.")
       /\ ~Contains(pagesVisited[i][2].pageAnalysis, "over 1 year old")

\* a fetched page in analyze mode with the given metadata, no last-modified
\* and no product, whose only body term matches no word of the metadata:
\* without the H1 rule its score is -2, for the missing last-modified
HeaderCase(title, description, keywords, headerOne) ==
    [statusCode |-> 200, analyze |-> TRUE, pageScore |-> 0, title |-> title,
     description |-> description, keywords |-> keywords, headerOne |-> headerOne,
     lastModified |-> Undefined, product |-> Undefined, version |-> "",
     terms |-> [vocabulary |-> <<"zzz">>, data |-> << <<1>> >>]]

\* the number of words of a field, lower-cased, that are words of the H1;
\* 0 for a field the page lacks
HeaderWordsIn(field, headerOne) ==
    IF ~Truthy(field) THEN 0
    ELSE Cardinality({i \in 1..Len(KeywordEntries(field)) :
                         Includes(Split(headerOne, " "),
                                  ToLowerCase(KeywordEntries(field)[i]))})

\* the H1 rule on pages with and without a title, a description, keywords
\* and an H1 of one and two words
HeaderCasesScored ==
    \A title \in {"", "Docs Home guide"}, description \in {Undefined, "the docs"},
       keywords \in {Undefined, "home,guide"},
       headerOne \in {"", "docs", "docs home"} :
       scorePage(HeaderCase(title, description, keywords, headerOne),
                 CrawlStart).pageDetails.pageScore =
          -2 + (IF headerOne = "" THEN -1
                ELSE 1 + HeaderWordsIn(title, headerOne)
                       + HeaderWordsIn(description, headerOne)
                       + HeaderWordsIn(keywords, headerOne))

ScoreTimes == {CrawlStart, CrawlStart + 1, CrawlStart + 5, CrawlStart + OneYear}

\* last-modified values: absent, no date, a day, 365 days and 366 days
\* before the crawl
LastModifiedCases == {Undefined, "not a date", "2026-10-31", "2025-11-01", "2025-10-31"}

\* C23 as claimed: scorePage on equal metadata and equal term frequencies
\* gives the same score, analysis and frequency list whenever it is invoked.
C23_TimeIndependent ==
    \A lastModified \in LastModifiedCases :
       scorePage(AgeCase(lastModified), now) =
          scorePage(AgeCase(lastModified), CrawlStart)

\* at both moments the page is over one year old, or at neither
SameAge(lastModified, first, second) ==
    \/ ~Truthy(lastModified)
    \/ DateParse(lastModified).nan
    \/ (first - DateParse(lastModified).value > OneYear)
          <=> (second - DateParse(lastModified).value > OneYear)

\* scorePage gives the same result at any two moments on the same side of
\* the page's first birthday
SameAgeSameScore ==
    \A lastModified \in LastModifiedCases, first \in ScoreTimes, second \in ScoreTimes :
       SameAge(lastModified, first, second) =>
          scorePage(AgeCase(lastModified), first) =
             scorePage(AgeCase(lastModified), second)

\* what scorePage makes, at the start of the crawl, of a record just queued
\* that got the page's metadata and term matrix
ScoredAtStart(content) ==
    scorePage(SetProperty(withMetadata(NewPageDetails("", TRUE, CrawlStart), content),
                          "terms", content.terms),
              CrawlStart).pageDetails

\* the score, analysis and frequency list of every page content
ContentScores ==
    {[title             |-> content.title,
      pageScore         |-> ScoredAtStart(content).pageScore,
      pageAnalysis      |-> ScoredAtStart(content).pageAnalysis,
      wordFrequencyList |-> ScoredAtStart(content).wordFrequencyList] :
        content \in PageContents}

\* C23 amended: scorePage is a function of the metadata, the term
\* frequencies and the moment it is invoked, and the moment counts only for
\* whether a dated page is over one year old: invocations at which the page
\* is on the same side of 365 days give the same score, analysis and
\* frequency list, so every page scored during the crawl has the result its
\* content has at the start of the crawl, whatever else the crawl did.
C23_DeterministicAtAge ==
    /\ SameAgeSameScore
    /\ \A i \in 1..Len(pagesVisited) :
          HasProperty(pagesVisited[i][2], "pageAnalysis") =>
             [title             |-> pagesVisited[i][2].title,
              pageScore         |-> pagesVisited[i][2].pageScore,
              pageAnalysis      |-> pagesVisited[i][2].pageAnalysis,
              wordFrequencyList |-> pagesVisited[i][2].wordFrequencyList]
                \in ContentScores

\* two pages of the same content were scored at different moments of the
\* crawl, with other records in the map, and got the same result
C23_Witness ==
    \E i, j \in 1..Len(pagesVisited) :
       /\ i # j
       /\ HasProperty(pagesVisited[i][2], "pageAnalysis")
       /\ HasProperty(pagesVisited[j][2], "pageAnalysis")
       /\ pagesVisited[i][2].completeTime # pagesVisited[j][2].completeTime
       /\ pagesVisited[i][2].title = pagesVisited[j][2].title
       /\ pagesVisited[i][2].pageScore = pagesVisited[j][2].pageScore
       /\ pagesVisited[i][2].pageAnalysis = pagesVisited[j][2].pageAnalysis
       /\ pagesVisited[i][2].wordFrequencyList = pagesVisited[j][2].wordFrequencyList

\* a fetched page in analyze mode with the given title, description and
\* keywords, no last-modified, product nor H1, and the body terms "docs",
\* with the given frequency, and "home", with frequency 2: without the
\* boosts its score is -3
BoostCase(title, description, keywords, frequency) ==
    [statusCode |-> 200, analyze |-> TRUE, pageScore |-> 0, title |-> title,
     description |-> description, keywords |-> keywords, headerOne |-> "",
     lastModified |-> Undefined, product |-> Undefined, version |-> "",
     terms |-> [vocabulary |-> <<"docs", "home">>,
                data |-> << <<frequency, 2>> >>]]

\* the page as scorePage leaves it
BoostScored(title, description, keywords, frequency) ==
    scorePage(BoostCase(title, description, keywords, frequency),
              CrawlStart).pageDetails

\* the boosts gave the page this much score and left "docs" this frequency
BoostedTo(title, description, keywords, frequency, gain, boosted) ==
    /\ BoostScored(title, description, keywords, frequency).pageScore = gain - 3
    /\ FrequencyOf(BoostScored(title, description, keywords,
                               frequency).wordFrequencyList, "docs") = boosted

\* the sequential fold on a term that the title, the description and the
\* keywords name: from frequency 1 the title scores 0, the description 2
\* (it reads 3) and the keywords 1 (they read 5), where three passes over
\* the initial frequency would score 0
BoostCasesScored ==
    /\ BoostedTo("Docs", "docs", "docs", 1, 3, 6)
    /\ BoostedTo("Docs", "docs", "docs", 2, 5, 7)
    /\ BoostedTo("", "docs", "docs", 1, 1, 4)
    /\ BoostedTo("Docs", Undefined, "docs", 1, 1, 4)
    /\ BoostedTo("Docs", "docs", Undefined, 1, 2, 5)
    /\ BoostedTo("Docs", Undefined, Undefined, 1, 0, 3)
    /\ BoostedTo("", "docs", Undefined, 1, 0, 3)
    /\ BoostedTo("", Undefined, "docs", 1, 0, 2)

\* C24: the boosts run in the order title, description, keywords over one
\* frequency list: the description pass tests frequency > 1 on what the
\* title pass left, the keywords pass on what both left, and the score is
\* that of the sequential fold, not of three passes over the initial
\* frequencies.
C24_BoostFeedbackOrder ==
    /\ BoostCasesScored
    /\ \A i \in 1..Len(pagesVisited) :
          (/\ HasProperty(pagesVisited[i][2], "wordFrequencyList")
           /\ pagesVisited[i][2].title = "Docs Home") =>
             /\ FrequencyOf(pagesVisited[i][2].wordFrequencyList, "docs") = 5
             /\ Contains(pagesVisited[i][2].pageAnalysis,
                         "good: 1 title words appear in body.")
             /\ Contains(pagesVisited[i][2].pageAnalysis,
                         "; good: 1 keywords appear in body.")

\* a page whose title and keywords both name "docs" was scored in the crawl:
\* the keywords pass read the frequency 4 the title pass left and made it 5
C24_Witness ==
    \E i \in 1..Len(pagesVisited) :
       /\ HasProperty(pagesVisited[i][2], "wordFrequencyList")
       /\ pagesVisited[i][2].title = "Docs Home"
       /\ pagesVisited[i][2].keywords = "docs,home,welcome"
       /\ FrequencyOf(pagesVisited[i][2].wordFrequencyList, "docs") = 5
       /\ Contains(pagesVisited[i][2].pageAnalysis, "; good: 1 keywords appear in body.")

\* C25 as claimed: every key of the record map was inserted by
\* queueURLToCrawl; the completion of a fetch adds no record, also when the
\* response reports a URL that has none.
C25_OnlyEnqueueCreates ==
    \A i \in 1..Len(pagesVisited) : pagesVisited[i][1] \in QueuedURLs

\* the record analyzePage stores for a response whose URL had none
RecordOfResponse ==
    [statusCode |-> lastResponse'.statusCode, analyze |-> FALSE, completeTime |-> now']

\* C25 amended: a record is created by queueURLToCrawl or by analyzePage: a
\* response that reports a URL without a record (the fetch was redirected)
\* gets a record under the reported URL that has the status code, analyze =
\* false and completeTime and nothing else. Every key of the record map
\* comes from one of the two.
C25_EnqueueOrResponseCreates ==
    /\ \A i \in 1..Len(pagesVisited) : pagesVisited[i][1] \in QueuedURLs
    /\ [][/\ \A i \in 1..Len(pagesVisited') :
                \/ HasPage(pagesVisited, pagesVisited'[i][1])
                \/ \E j \in (Len(queuedLog) + 1)..Len(queuedLog') :
                      queuedLog'[j].URL = pagesVisited'[i][1]
                \/ /\ ResponseCompletion
                   /\ pagesVisited'[i][1] = lastResponse'.href
                   /\ pagesVisited'[i][2] = RecordOfResponse
          /\ (ResponseCompletion /\ ~HasPage(pagesVisited, lastResponse'.href)) =>
                /\ HasPage(pagesVisited', lastResponse'.href)
                /\ GetPage(pagesVisited', lastResponse'.href) = RecordOfResponse]_vars

\* the fetch of a queued URL was redirected to a URL that was never queued:
\* the record map has a record under it
C25_Witness ==
    /\ lastResponse.kind = "response"
    /\ lastResponse.href # lastResponse.URL
    /\ lastResponse.href \notin QueuedURLs
    /\ HasPage(pagesVisited, lastResponse.href)
    /\ GetPage(pagesVisited, lastResponse.href).completeTime = now
    /\ DOMAIN GetPage(pagesVisited, lastResponse.href) =
          {"statusCode", "analyze", "completeTime"}

\* the URL is the configured protocol and host followed by a path, and with
\* subPathOnly set the path starts with basePath
InCrawlScope(URL) ==
    /\ StartsWith(URL, configuration.protocol \o "//" \o configuration.host)
    /\ URLParse(URL).protocol = configuration.protocol
    /\ URLParse(URL).hostname = configuration.host
    /\ configuration.subPathOnly =>
          /\ configuration.basePath = Dirname(configuration.startPage)
          /\ StartsWith(SubSeq(URL,
                               Len(configuration.protocol \o "//" \o configuration.host) + 1,
                               Len(URL)),
                        configuration.basePath)

\* C26: every URL queued in analyze mode, the root page and every link
\* followed, is the configured protocol and host followed by a path, which
\* with subPathOnly set starts with basePath, the directory of startPage; no
\* URL on another host is queued in analyze mode.
C26_AnalyzeStaysInScope ==
    \A i \in 1..Len(queuedLog) :
       queuedLog[i].analyze => InCrawlScope(queuedLog[i].URL)

\* with subPathOnly set, a page linked to a page under basePath, which was
\* queued in analyze mode, and to a URL outside it, which was queued as a
\* probe
C26_Witness ==
    /\ configuration.subPathOnly
    /\ \E i \in 1..Len(queuedLog) :
         /\ queuedLog[i].analyze
         /\ queuedLog[i].URL # startURL
         /\ InCrawlScope(queuedLog[i].URL)
    /\ \E i \in 1..Len(queuedLog) :
         /\ ~queuedLog[i].analyze
         /\ ~InCrawlScope(queuedLog[i].URL)

\* hrefs a page can carry, several forms of the same pages among them
OrderCases ==
    {"/", "index.html", "https://h.com/index.html", "/docs/page2.html",
     "page2.html", "//o.com/x", "https://o.com/x"}

\* the record map after the root page's handler followed two links in order
FollowedInOrder(first, second) ==
    followAnchors(Crawl, <<[href |-> first], [href |-> second]>>, 1,
                  URLParse(startURL).pathname, startURL, now).pagesVisited

\* every record of pages has a record of the same mode in others
SameModes(pages, others) ==
    \A i \in 1..Len(pages) :
       /\ HasPage(others, pages[i][1])
       /\ GetPage(others, pages[i][1]).analyze = pages[i][2].analyze

\* C27 as claimed: the mode of every URL's record does not depend on the
\* order in which links are discovered: whichever of two links of a page is
\* followed first, each URL gets a record of the same mode; no URL is queued
\* as a probe through one form of href and in analyze mode through another.
C27_ModeOrderIndependent ==
    \A first \in OrderCases, second \in OrderCases :
       SameModes(FollowedInOrder(first, second), FollowedInOrder(second, first))

\* C28 as claimed: the version field of every record is the empty string.
C28_VersionAlwaysEmpty ==
    \A i \in 1..Len(pagesVisited) :
       /\ HasProperty(pagesVisited[i][2], "version")
       /\ pagesVisited[i][2].version = ""

\* the clauses of the product rule in the analysis of a scored record
ProductClauses(pageDetails) ==
    [missing |-> Contains(pageDetails.pageAnalysis,
                          "; bad: page has product but missing version."),
     both    |-> Contains(pageDetails.pageAnalysis,
                          "; good: page has product and version.")]

\* C28 amended: no record ever has a non-empty version: a record made by
\* queueURLToCrawl keeps the version "" it was created with, and a record
\* stored for a redirected response has no version field (nor any other
\* metadata). So every page scored in the crawl that has a product gets the
\* "product but missing version" outcome, a page without product gets no
\* product clause, and "product and version" is never awarded.
C28_VersionNeverSet ==
    \A i \in 1..Len(pagesVisited) :
       /\ IF HasProperty(pagesVisited[i][2], "version")
          THEN pagesVisited[i][2].version = ""
          ELSE DOMAIN pagesVisited[i][2] = {"statusCode", "analyze", "completeTime"}
       /\ HasProperty(pagesVisited[i][2], "pageAnalysis") =>
             ProductClauses(pagesVisited[i][2]) =
                [missing |-> Truthy(pagesVisited[i][2].product), both |-> FALSE]

\* a page that names a product was scored in the crawl: its version is
\* empty and its analysis says the version is missing
C28_Witness ==
    \E i \in 1..Len(pagesVisited) :
       /\ HasProperty(pagesVisited[i][2], "pageAnalysis")
       /\ pagesVisited[i][2].product = "Suite"
       /\ pagesVisited[i][2].version = ""
       /\ ProductClauses(pagesVisited[i][2]) = [missing |-> TRUE, both |-> FALSE]

====
